---- MODULE Spec2Model ----
(***************************************************************************)
(* FileModule (src/src/FileModule.cc): the registry of "use" and "include" *)
(* references of a parsed file, their resolution, and the dependency pass   *)
(* handleDependencies() with its re-entrancy guard.                         *)
(*                                                                          *)
(* File names are sequences of one-character strings, so that is_absolute,  *)
(* extension and to_lower are computed and not read from a table.           *)
(* FileModule objects are numbered 1..NumFiles; object m is the module the  *)
(* parser produces for the file ModPath(m).                                 *)
(*                                                                          *)
(* addUseNode, addIncludeNode, resolveExternals and includesChanged are one *)
(* action each.  handleDependencies() calls ModuleCache::evaluate, which    *)
(* runs handleDependencies() of the module it returns, so a call can be     *)
(* entered while another is in progress: its activations are kept on a      *)
(* stack and its loop body is split where evaluate calls back (HD_Call,     *)
(* HD_Begin, HD_Deps, HD_Finish, HD_Return).  The other operations and the  *)
(* environment run only while no call is in progress.                       *)
(*                                                                          *)
(* ModuleCache, find_valid_path and StatCache are not part of the source    *)
(* file; they are modelled from their contracts.                            *)
(***************************************************************************)
EXTENDS Integers, Sequences, FiniteSets, TLC

\* ---------------------------------------------------------------- bounds
NumFiles == 2
MaxRefs == 2
MaxTime == 2
MaxPasses == 2
MaxStmts == 2

Mod == 1..NumFiles
NoModule == 0

\* ------------------------------------------------------------ file names
Str1(c) == <<c>>

LowerChar(c) ==
  CASE c = "A" -> "a" [] c = "B" -> "b" [] c = "C" -> "c" [] c = "D" -> "d"
    [] c = "E" -> "e" [] c = "F" -> "f" [] c = "G" -> "g" [] c = "H" -> "h"
    [] c = "I" -> "i" [] c = "J" -> "j" [] c = "K" -> "k" [] c = "L" -> "l"
    [] c = "M" -> "m" [] c = "N" -> "n" [] c = "O" -> "o" [] c = "P" -> "p"
    [] c = "Q" -> "q" [] c = "R" -> "r" [] c = "S" -> "s" [] c = "T" -> "t"
    [] c = "U" -> "u" [] c = "V" -> "v" [] c = "W" -> "w" [] c = "X" -> "x"
    [] c = "Y" -> "y" [] c = "Z" -> "z" [] OTHER -> c

\* boost::algorithm::to_lower_copy
ToLower(s) == [i \in 1..Len(s) |-> LowerChar(s[i])]

\* Index of the last occurrence of character c in s, 0 when there is none.
LastIndexOf(s, c) ==
  LET hits == {i \in 1..Len(s) : s[i] = c}
  IN IF hits = {} THEN 0 ELSE CHOOSE i \in hits : \A j \in hits : j <= i

\* fs::path::filename: the last component of the path.
Filename(p) == SubSeq(p, LastIndexOf(p, "/") + 1, Len(p))

\* fs::path::extension: from the last dot of the last component to its end;
\* empty when there is no dot and for the components "." and "..".
Extension(p) ==
  LET f == Filename(p)
      d == LastIndexOf(f, ".")
  IN IF f = <<".">> \/ f = <<".", ".">> \/ d = 0 THEN <<>> ELSE SubSeq(f, d, Len(f))

\* fs::path::is_absolute (POSIX): the path starts at the root directory.
IsAbsolute(p) == Len(p) > 0 /\ p[1] = "/"

\* fs::path operator/ : an absolute right operand replaces the left one.
Join(dir, local) == IF IsAbsolute(local) THEN local ELSE dir \o <<"/">> \o local

\* The extension test of resolveUseNodes(): ".otf" or ".ttf" in any letter case.
IsFontCaseSensitive(filename) ==
  LET ext == Extension(filename)
  IN ext = <<".", "o", "t", "f">> \/ ext = <<".", "t", "t", "f">>

IsFont(filename) ==
  LET ext == ToLower(Extension(filename))
  IN ext = <<".", "o", "t", "f">> \/ ext = <<".", "t", "t", "f">>

\* --------------------------------------------------------- the file system
BasePath == <<"/", "p">>      \* FileModule::path of every module of the model
Cwd == <<"/", "w">>           \* the process's working directory

LibChars == <<"a", "b", "c", "d", "e">>
LibName(m) == Str1(LibChars[m])
ModPath(m) == Join(BasePath, LibName(m))
LibPaths == {ModPath(m) : m \in Mod}
\* The module object the parser yields for a library path.
ModOf(p) == CHOOSE m \in Mod : ModPath(m) = p

IncName == <<"i">>
IncPath == Join(BasePath, IncName)
CwdIncPath == Join(Cwd, IncName)
FontName == <<"F", ".", "T", "t", "f">>
FontPath == Join(Cwd, FontName)

FsPaths == LibPaths \cup {IncPath, CwdIncPath, FontPath}
FileStates == {"missing", "unreadable", "broken", "valid"}

VARIABLES
  externalList,   \* [Mod -> Seq of [kind, filename]]: FileModule::externalList
  externalDict,   \* [Mod -> function key -> index into externalList]: FileModule::externalDict
  guard,          \* [Mod -> BOOLEAN]: FileModule::is_handling_dependencies
  fs,             \* [FsPaths -> [st, mtime]]: the files on disk
  cache,          \* [LibPaths -> [cached, module, mtime]]: the ModuleCache entries
  stack,          \* the handleDependencies() activations in progress, innermost last
  hist,           \* one record per handleDependencies() call since Init, in call order
  events,         \* diagnostics and font registrations of the last registry operation
  out             \* the last top-level operation and what it returned (-1: not yet)

vars == <<externalList, externalDict, guard, fs, cache, stack, hist, events, out>>


\* ------------------------------------------------------------ collaborators
EmptyPath == <<>>

Exists(f, p) == p \in DOMAIN f /\ f[p].st # "missing"

\* fs::is_regular and StatCache::stat take the name as given: a relative name
\* is looked up from the working directory.
IsRegular(f, name) == Exists(f, Join(Cwd, name))

StatOk(f, name) == Exists(f, Join(Cwd, name))
StatMtime(f, name) == f[Join(Cwd, name)].mtime

\* PathResolver (find_valid_path): the first existing candidate, the
\* referencing file's directory first, then the library search path; the
\* empty path when there is none.
LibrarySearchPath == <<>>

Candidates(base, local) ==
  <<Join(base, local)>> \o [i \in 1..Len(LibrarySearchPath) |-> Join(LibrarySearchPath[i], local)]

FindValidPath(f, base, local) ==
  LET c == Candidates(base, local)
      ok == {i \in 1..Len(c) : Exists(f, c[i])}
  IN IF ok = {} THEN EmptyPath ELSE c[CHOOSE i \in ok : \A j \in ok : i <= j]

\* ModuleCache::isCached / lookup
IsCached(c, p) == c[p].cached
Lookup(c, p) == c[p].module

\* ModuleCache::evaluate, up to the dependency pass it runs on the module it
\* returns: a missing file yields no module and mtime 0; an entry at least as
\* new as the file is returned unchanged; otherwise the file is compiled, the
\* entry records the mtime seen, and a failed compilation yields no module
\* while the entry keeps the module it had.
CacheEvaluate(c, f, p) ==
  LET ent == c[p]
      disk == f[p]
  IN IF disk.st = "missing"
       THEN [cache |-> [c EXCEPT ![p] = [cached |-> TRUE, module |-> ent.module, mtime |-> ent.mtime]],
             module |-> NoModule, mtime |-> 0]
     ELSE IF ent.cached /\ disk.mtime <= ent.mtime
       THEN [cache |-> c, module |-> ent.module, mtime |-> ent.mtime]
     ELSE IF disk.st = "valid"
       THEN [cache |-> [c EXCEPT ![p] = [cached |-> TRUE, module |-> ModOf(p), mtime |-> disk.mtime]],
             module |-> ModOf(p), mtime |-> disk.mtime]
     ELSE [cache |-> [c EXCEPT ![p] = [cached |-> TRUE, module |-> ent.module, mtime |-> disk.mtime]],
           module |-> NoModule, mtime |-> disk.mtime]

\* ------------------------------------------------------------ the registry
UseNode(name) == [kind |-> "use", filename |-> name]
IncludeNode(name) == [kind |-> "include", filename |-> name]

RECURSIVE SumLen(_, _)
SumLen(lists, m) == IF m = 0 THEN 0 ELSE Len(lists[m]) + SumLen(lists, m - 1)
TotalRefs == SumLen(externalList, NumFiles)

DictInsertOrErase(d, k, v) ==
  IF k \in DOMAIN d THEN [x \in DOMAIN d \ {k} |-> d[x]]
  ELSE [x \in DOMAIN d \cup {k} |-> IF x = k THEN v ELSE d[x]]

\* std::map::insert: keeps the existing value when the key is present.
DictInsert(d, k, v) ==
  IF k \in DOMAIN d THEN d ELSE [x \in DOMAIN d \cup {k} |-> IF x = k THEN v ELSE d[x]]

DictErase(d, k) == [x \in DOMAIN d \ {k} |-> d[x]]

EmptyDict == [x \in {} |-> 0]

Event(ev, m, i, name) == [ev |-> ev, mod |-> m, node |-> i, file |-> name]

RECURSIVE UseNodesFromFoundOnly(_, _, _, _, _)
UseNodesFromFoundOnly(m, list, f, i, r) ==
  IF i > Len(list) THEN r
  ELSE IF list[i].kind # "use" THEN UseNodesFromFoundOnly(m, list, f, i + 1, r)
  ELSE LET filename == list[i].filename
       IN IF IsFont(filename)
            THEN UseNodesFromFoundOnly(m, list, f, i + 1,
                   [r EXCEPT !.events = Append(@,
                      Event(IF IsRegular(f, filename) THEN "register_font" ELSE "err_font", m, i, filename))])
          ELSE IF FindValidPath(f, BasePath, filename) = EmptyPath
            THEN UseNodesFromFoundOnly(m, list, f, i + 1, r)
          ELSE UseNodesFromFoundOnly(m, list, f, i + 1,
                   [r EXCEPT !.dict = DictInsert(@, filename, i)])

\* resolveUseNodes(): the loop over externalList from index i on; r is
\* [dict, events] so far.
RECURSIVE UseNodesFrom(_, _, _, _, _)
UseNodesFrom(m, list, f, i, r) ==
  IF i > Len(list) THEN r
  ELSE IF list[i].kind # "use" THEN UseNodesFrom(m, list, f, i + 1, r)
  ELSE LET filename == list[i].filename
       IN IF IsFont(filename)
            THEN UseNodesFrom(m, list, f, i + 1,
                   [r EXCEPT !.events = Append(@,
                      Event(IF IsRegular(f, filename) THEN "register_font" ELSE "err_font", m, i, filename))])
            ELSE UseNodesFrom(m, list, f, i + 1,
                   [r EXCEPT !.dict = DictInsert(@, filename, i)])

RECURSIVE IncludeNodesFromStopAtUnresolved(_, _, _, _)
IncludeNodesFromStopAtUnresolved(m, list, f, i) ==
  IF i > Len(list) THEN <<>>
  ELSE IF list[i].kind # "include" THEN IncludeNodesFromStopAtUnresolved(m, list, f, i + 1)
  ELSE LET localpath == list[i].filename
           fullpath == FindValidPath(f, BasePath, localpath)
       IN IF fullpath = EmptyPath
            THEN <<Event("warn_include", m, i, localpath)>>
          ELSE IF f[fullpath].st = "unreadable"
            THEN <<Event("err_open", m, i, fullpath)>>
          ELSE IF f[fullpath].st = "broken"
            THEN <<Event("err_parse", m, i, fullpath)>>
          ELSE IncludeNodesFromStopAtUnresolved(m, list, f, i + 1)

\* resolveIncludeNodes(): the diagnostics of the loop from index i on.  An
\* include that cannot be opened or parsed ends the loop.
RECURSIVE IncludeNodesFrom(_, _, _, _)
IncludeNodesFrom(m, list, f, i) ==
  IF i > Len(list) THEN <<>>
  ELSE IF list[i].kind # "include" THEN IncludeNodesFrom(m, list, f, i + 1)
  ELSE LET localpath == list[i].filename
           fullpath == FindValidPath(f, BasePath, localpath)
       IN IF fullpath = EmptyPath
            THEN <<Event("warn_include", m, i, localpath)>> \o IncludeNodesFrom(m, list, f, i + 1)
          ELSE IF f[fullpath].st = "unreadable"
            THEN <<Event("err_open", m, i, fullpath)>>
          ELSE IF f[fullpath].st = "broken"
            THEN <<Event("err_parse", m, i, fullpath)>>
          ELSE IncludeNodesFrom(m, list, f, i + 1)

\* includeModified(): the mtime of the node's filename, 0 when stat fails.
IncludeModified(f, node) == IF StatOk(f, node.filename) THEN StatMtime(f, node.filename) ELSE 0

\* includesChanged(): the loop over externalList from index i on.
RECURSIVE IncludesChangedFrom(_, _, _, _)
IncludesChangedFrom(list, f, i, latest) ==
  IF i > Len(list) THEN latest
  ELSE IF list[i].kind = "include"
    THEN LET mtime == IncludeModified(f, list[i])
         IN IncludesChangedFrom(list, f, i + 1, IF mtime > latest THEN mtime ELSE latest)
    ELSE IncludesChangedFrom(list, f, i + 1, latest)

Idle == stack = <<>>

\* The record of a completed operation; again says that the operation before
\* it was the same operation on the same module.
Done(op, m, ret) ==
  [op |-> op, mod |-> m, ret |-> ret, again |-> op # "none" /\ out.op = op /\ out.mod = m]

AddUseNodeAtFront(m, name) ==
  /\ Idle
  /\ TotalRefs < MaxRefs
  /\ externalList' = [externalList EXCEPT ![m] = <<UseNode(name)>> \o @]
  /\ out' = Done("none", 0, 0)
  /\ events' = <<>>
  /\ UNCHANGED <<externalDict, guard, fs, cache, stack, hist>>

AddUseNode(m, name) ==
  /\ Idle
  /\ TotalRefs < MaxRefs
  /\ externalList' = [externalList EXCEPT ![m] = Append(@, UseNode(name))]
  /\ out' = Done("none", 0, 0)
  /\ events' = <<>>
  /\ UNCHANGED <<externalDict, guard, fs, cache, stack, hist>>

AddIncludeNode(m, name) ==
  /\ Idle
  /\ TotalRefs < MaxRefs
  /\ externalList' = [externalList EXCEPT ![m] = Append(@, IncludeNode(name))]
  /\ out' = Done("none", 0, 0)
  /\ events' = <<>>
  /\ UNCHANGED <<externalDict, guard, fs, cache, stack, hist>>

ResolveExternalsStopOnIncludeFailure(m) ==
  /\ Idle
  /\ LET inc == IncludeNodesFrom(m, externalList[m], fs, 1)
         stopped == \E k \in 1..Len(inc) : inc[k].ev \in {"err_open", "err_parse"}
         use == IF stopped THEN [dict |-> externalDict[m], events |-> <<>>]
                ELSE UseNodesFrom(m, externalList[m], fs, 1, [dict |-> externalDict[m], events |-> <<>>])
     IN /\ externalDict' = [externalDict EXCEPT ![m] = use.dict]
        /\ events' = inc \o use.events
  /\ out' = Done("resolveExternals", m, 0)
  /\ UNCHANGED <<externalList, guard, fs, cache, stack, hist>>

\* resolveExternals(): resolveIncludeNodes(), then resolveUseNodes().
ResolveExternals(m) ==
  /\ Idle
  /\ LET inc == IncludeNodesFrom(m, externalList[m], fs, 1)
         use == UseNodesFrom(m, externalList[m], fs, 1, [dict |-> externalDict[m], events |-> <<>>])
     IN /\ externalDict' = [externalDict EXCEPT ![m] = use.dict]
        /\ events' = inc \o use.events
  /\ out' = Done("resolveExternals", m, 0)
  /\ UNCHANGED <<externalList, guard, fs, cache, stack, hist>>

IncludesChanged(m) ==
  /\ Idle
  /\ out' = Done("includesChanged", m, IncludesChangedFrom(externalList[m], fs, 1, 0))
  /\ events' = <<>>
  /\ UNCHANGED <<externalList, externalDict, guard, fs, cache, stack, hist>>

\* The environment writes, breaks or removes a file between operations.
SetFile(p, st, t) ==
  /\ Idle
  /\ (st = "missing") = (t = 0)
  /\ fs[p] # [st |-> st, mtime |-> t]
  /\ fs' = [fs EXCEPT ![p] = [st |-> st, mtime |-> t]]
  /\ out' = Done("none", 0, 0)
  /\ events' = <<>>
  /\ UNCHANGED <<externalList, externalDict, guard, cache, stack, hist>>

\* ------------------------------------------------------------ instantiate()
\* What initializeModule or the evaluation of a statement may throw.
\* EvaluationException and the classes derived from it are what the handler
\* of instantiateWithFileContext() catches.
ExceptionTypes == {"EvaluationException", "ExperimentalFeatureException", "OtherException"}
IsEvaluationException(t) == t \in {"EvaluationException", "ExperimentalFeatureException"}

InitOutcomes == {"ok"} \cup ExceptionTypes
StmtOutcomes == {"node"} \cup ExceptionTypes
StmtSeqs == UNION {[1..n -> StmtOutcomes] : n \in 0..MaxStmts}

\* LocalScope::instantiateChildren: the statements are evaluated in order, the
\* nodes they yield are gathered in a local vector, and an exception thrown
\* by a statement leaves the call at once.  reached counts the statements
\* whose evaluation was started.
RECURSIVE InstantiateChildren(_, _, _)
InstantiateChildren(stmts, i, nodes) ==
  IF i > Len(stmts) THEN [nodes |-> nodes, thrown |-> "none", reached |-> Len(stmts)]
  ELSE IF stmts[i] = "node" THEN InstantiateChildren(stmts, i + 1, Append(nodes, i))
  ELSE [nodes |-> nodes, thrown |-> stmts[i], reached |-> i]

InstantiateKeepingPartial(m, init, stmts) ==
  LET r == InstantiateChildren(stmts, 1, <<>>)
      thrown == IF init # "ok" THEN init ELSE r.thrown
  IN <<Event("initializeModule", m, 0, <<>>)>>
     \o [k \in 1..r.reached |-> Event("instantiate", m, k, <<>>)]
     \o (IF thrown = "none" THEN <<>> ELSE <<Event("throw", m, IF init # "ok" THEN 0 ELSE r.reached, <<thrown>>)>>)
     \o [k \in 1..Len(r.nodes) |-> Event("child", m, r.nodes[k], <<>>)]
     \o <<Event("return", m, Len(r.nodes), <<>>)>>

\* instantiateWithFileContext() as the log of what it did: the initialization,
\* the statements evaluated, the exception thrown (node 0: by the
\* initialization), the report of a caught exception, and either the children
\* of the root node returned or the exception leaving the call.
InstantiateWithFileContext(m, init, stmts) ==
  LET r == IF init # "ok" THEN [nodes |-> <<>>, thrown |-> init, reached |-> 0]
           ELSE InstantiateChildren(stmts, 1, <<>>)
      caught == r.thrown # "none" /\ IsEvaluationException(r.thrown)
      escaped == r.thrown # "none" /\ ~caught
      children == IF r.thrown = "none" THEN r.nodes ELSE <<>>
  IN <<Event("initializeModule", m, 0, <<>>)>>
     \o [k \in 1..r.reached |-> Event("instantiate", m, k, <<>>)]
     \o (IF r.thrown = "none" THEN <<>> ELSE <<Event("throw", m, r.reached, <<r.thrown>>)>>)
     \o (IF caught THEN <<Event("print", m, r.reached, <<r.thrown>>)>> ELSE <<>>)
     \o (IF escaped THEN <<Event("escape", m, r.reached, <<r.thrown>>)>>
         ELSE [k \in 1..Len(children) |-> Event("child", m, children[k], <<>>)]
              \o <<Event("return", m, Len(children), <<>>)>>)

\* instantiate(): a file context is made and instantiateWithFileContext() run
\* in it; ret is the number of children of the root node returned, -1 when
\* the call was left by an exception.
Instantiate(m, init, stmts) ==
  /\ Idle
  /\ LET log == InstantiateWithFileContext(m, init, stmts)
         last == log[Len(log)]
     IN /\ events' = log
        /\ out' = Done("instantiate", m, IF last.ev = "return" THEN last.node ELSE -1)
  /\ UNCHANGED <<externalList, externalDict, guard, fs, cache, stack, hist>>

\* ------------------------------------------------------ handleDependencies()
\* An activation of handleDependencies() past its guard test: the module, the
\* index of its record in hist, the keys of externalDict the loop has not
\* visited yet, the renames remembered, the running maximum, the position in
\* the loop body and the locals of the entry being processed.
NoEntry == [key |-> EmptyPath]

Frame(m, id, keys) ==
  [mod |-> m, id |-> id, todo |-> keys, updates |-> <<>>, latest |-> 0,
   pc |-> "loop", cur |-> NoEntry]

\* What hist records of one call: a call that found the guard set is a no-op
\* that returned 0; keys are the keys the loop is about to visit, entries what
\* the loop did for each; ret is -1 until the call returns.
PassRecord(m, depth, noop) ==
  [mod |-> m, depth |-> depth, noop |-> noop, entries |-> <<>>,
   keys |-> IF noop THEN {} ELSE DOMAIN externalDict[m],
   ret |-> IF noop THEN 0 ELSE -1]

Top == stack[Len(stack)]
Pop(s) == SubSeq(s, 1, Len(s) - 1)
SetTop(s, fr) == [s EXCEPT ![Len(s)] = fr]

TopPasses == Cardinality({i \in 1..Len(hist) : hist[i].depth = 0})

GuardNeverSet(m) == FALSE

\* The guard test at the head of handleDependencies().
GuardSet(m) == guard[m]

\* A top-level call of handleDependencies() on module m.
HD_Call(m) ==
  /\ Idle
  /\ TopPasses < MaxPasses
  /\ events' = <<>>
  /\ IF GuardSet(m)
       THEN /\ hist' = Append(hist, PassRecord(m, 0, TRUE))
            /\ out' = Done("handleDependencies", m, 0)
            /\ UNCHANGED <<guard, stack>>
       ELSE /\ guard' = [guard EXCEPT ![m] = TRUE]
            /\ hist' = Append(hist, PassRecord(m, 0, FALSE))
            /\ stack' = <<Frame(m, Len(hist) + 1, DOMAIN externalDict[m])>>
            /\ out' = Done("handleDependencies", m, -1)
  /\ UNCHANGED <<externalList, externalDict, fs, cache>>

HD_BeginEvaluatingUnresolved ==
  /\ ~Idle
  /\ Top.pc = "loop"
  /\ \E key \in Top.todo :
       LET wasmissing == ~IsAbsolute(key)
           fullpath == Join(BasePath, key)
           wascached == IsCached(cache, fullpath)
           oldmodule == Lookup(cache, fullpath)
           r == CacheEvaluate(cache, fs, fullpath)
       IN /\ cache' = r.cache
          /\ stack' = SetTop(stack,
               [Top EXCEPT !.pc = "deps",
                           !.updates = IF wasmissing THEN Append(@, <<key, fullpath>>) ELSE @,
                           !.cur = [key |-> key, filename |-> fullpath,
                                    wasmissing |-> wasmissing, wascached |-> wascached,
                                    oldmodule |-> oldmodule, newmodule |-> r.module,
                                    mtime |-> r.mtime,
                                    calls |-> <<"isCached", "lookup", "evaluate">>]])
          /\ UNCHANGED hist
  /\ UNCHANGED <<externalList, externalDict, guard, fs, events, out>>

\* The loop body for one entry up to the compilation inside
\* ModuleCache::evaluate: the key is resolved when it is relative, and a
\* found entry reads isCached and lookup and then calls evaluate.
HD_Begin ==
  /\ ~Idle
  /\ Top.pc = "loop"
  /\ \E key \in Top.todo :
       LET m == Top.mod
           wasmissing == ~IsAbsolute(key)
           fullpath == IF wasmissing THEN FindValidPath(fs, BasePath, key) ELSE key
           found == fullpath # EmptyPath
       IN IF ~found
            THEN /\ hist' = [hist EXCEPT ![Top.id].entries = Append(@,
                      [key |-> key, node |-> externalDict[m][key], filename |-> key,
                       wasmissing |-> wasmissing, found |-> FALSE, wascached |-> FALSE,
                       newmodule |-> NoModule, mtime |-> 0, warned |-> FALSE, calls |-> <<>>,
                       disk |-> "missing"])]
                 /\ stack' = SetTop(stack, [Top EXCEPT !.todo = @ \ {key}])
                 /\ UNCHANGED cache
            ELSE LET wascached == IsCached(cache, fullpath)
                     oldmodule == Lookup(cache, fullpath)
                     r == CacheEvaluate(cache, fs, fullpath)
                 IN /\ cache' = r.cache
                    /\ stack' = SetTop(stack,
                         [Top EXCEPT !.pc = "deps",
                                     !.updates = IF wasmissing THEN Append(@, <<key, fullpath>>) ELSE @,
                                     !.cur = [key |-> key, filename |-> fullpath,
                                              wasmissing |-> wasmissing, wascached |-> wascached,
                                              oldmodule |-> oldmodule, newmodule |-> r.module,
                                              mtime |-> r.mtime,
                                              calls |-> <<"isCached", "lookup", "evaluate">>]])
                    /\ UNCHANGED hist
  /\ UNCHANGED <<externalList, externalDict, guard, fs, events, out>>

\* The end of ModuleCache::evaluate: the module it is about to return runs its
\* own handleDependencies(), which is a no-op when that module's guard is set.
HD_Deps ==
  /\ ~Idle
  /\ Top.pc = "deps"
  /\ LET lib == Top.cur.newmodule
     IN IF lib = NoModule
          THEN /\ stack' = SetTop(stack, [Top EXCEPT !.pc = "finish"])
               /\ UNCHANGED <<guard, hist>>
        ELSE IF GuardSet(lib)
          THEN /\ hist' = Append(hist, PassRecord(lib, Len(stack), TRUE))
               /\ stack' = SetTop(stack, [Top EXCEPT !.pc = "finish"])
               /\ UNCHANGED guard
        ELSE /\ guard' = [guard EXCEPT ![lib] = TRUE]
             /\ hist' = Append(hist, PassRecord(lib, Len(stack), FALSE))
             /\ stack' = Append(SetTop(stack, [Top EXCEPT !.pc = "wait"]),
                                Frame(lib, Len(hist) + 1, DOMAIN externalDict[lib]))
  /\ UNCHANGED <<externalList, externalDict, fs, cache, events, out>>

WarnIgnoringCache(newmodule, wascached, wasmissing) ==
  newmodule = NoModule /\ ~wasmissing

WarnIgnoringMissing(newmodule, wascached, wasmissing) ==
  newmodule = NoModule /\ ~wascached

\* The failure warning of the loop body.
WarnCondition(newmodule, wascached, wasmissing) ==
  newmodule = NoModule /\ ~wascached /\ ~wasmissing

LatestIsLast(latest, mtime) == mtime

\* The running maximum of the loop body.
Latest(latest, mtime) == IF mtime > latest THEN mtime ELSE latest

\* The loop body after evaluate has returned.
HD_Finish ==
  /\ ~Idle
  /\ Top.pc = "finish"
  /\ LET c == Top.cur
         m == Top.mod
     IN /\ hist' = [hist EXCEPT ![Top.id].entries = Append(@,
                [key |-> c.key, node |-> externalDict[m][c.key], filename |-> c.filename,
                 wasmissing |-> c.wasmissing, found |-> TRUE, wascached |-> c.wascached,
                 newmodule |-> c.newmodule, mtime |-> c.mtime,
                 warned |-> WarnCondition(c.newmodule, c.wascached, c.wasmissing),
                 calls |-> c.calls, disk |-> fs[c.filename].st])]
        /\ stack' = SetTop(stack, [Top EXCEPT !.pc = "loop", !.cur = NoEntry,
                                              !.todo = @ \ {c.key},
                                              !.latest = Latest(@, c.mtime)])
  /\ UNCHANGED <<externalList, externalDict, guard, fs, cache, events, out>>

RECURSIVE ApplyUpdatesNoErase(_, _, _)
ApplyUpdatesNoErase(d, updates, i) ==
  IF i > Len(updates) THEN d
  ELSE ApplyUpdatesNoErase(DictInsert(d, updates[i][2], d[updates[i][1]]), updates, i + 1)

RECURSIVE ApplyUpdatesOverwriting(_, _, _)
ApplyUpdatesOverwriting(d, updates, i) ==
  IF i > Len(updates) THEN d
  ELSE ApplyUpdatesOverwriting(
         DictErase([x \in DOMAIN d \cup {updates[i][2]} |->
                      IF x = updates[i][2] THEN d[updates[i][1]] ELSE d[x]], updates[i][1]),
         updates, i + 1)

\* The rename loop: every located relative key is reinserted as its absolute
\* path and erased.
RECURSIVE ApplyUpdates(_, _, _)
ApplyUpdates(d, updates, i) ==
  IF i > Len(updates) THEN d
  ELSE ApplyUpdates(DictErase(DictInsert(d, updates[i][2], d[updates[i][1]]), updates[i][1]),
                    updates, i + 1)

GuardResetOmitted(g, m) == g

\* The guard reset before the return.
GuardReset(g, m) == [g EXCEPT ![m] = FALSE]

\* The tail of handleDependencies(): renames, guard reset, return.  The
\* caller, if any, is inside evaluate and goes on with its loop body.
HD_Return ==
  /\ ~Idle
  /\ Top.pc = "loop"
  /\ Top.todo = {}
  /\ LET m == Top.mod
         rest == Pop(stack)
     IN /\ externalDict' = [externalDict EXCEPT ![m] = ApplyUpdates(@, Top.updates, 1)]
        /\ guard' = GuardReset(guard, m)
        /\ hist' = [hist EXCEPT ![Top.id].ret = Top.latest]
        /\ IF rest = <<>>
             THEN /\ stack' = rest
                  /\ out' = [out EXCEPT !.ret = Top.latest]
             ELSE /\ stack' = SetTop(rest, [rest[Len(rest)] EXCEPT !.pc = "finish"])
                  /\ UNCHANGED out
  /\ UNCHANGED <<externalList, fs, cache, events>>

\* ------------------------------------------------------------ specifications
Init ==
  /\ externalList = [m \in Mod |-> <<>>]
  /\ externalDict = [m \in Mod |-> EmptyDict]
  /\ guard = [m \in Mod |-> FALSE]
  /\ fs = [p \in FsPaths |-> [st |-> "missing", mtime |-> 0]]
  /\ cache = [p \in LibPaths |-> [cached |-> FALSE, module |-> NoModule, mtime |-> 0]]
  /\ stack = <<>>
  /\ hist = <<>>
  /\ events = <<>>
  /\ out = [op |-> "none", mod |-> 0, ret |-> 0, again |-> FALSE]

\* The references a library file or the main file may declare.
LibUseNames == {LibName(m) : m \in Mod} \cup LibPaths

\* Files that use each other: every module declares its references and
\* resolves them before the first pass; the library files change between the
\* passes.
Next ==
  \/ \E m \in Mod, n \in LibUseNames : hist = <<>> /\ AddUseNode(m, n)
  \/ \E m \in Mod : hist = <<>> /\ ResolveExternals(m)
  \/ \E p \in LibPaths, st \in {"missing", "broken", "valid"}, t \in 0..MaxTime :
        TopPasses < MaxPasses /\ SetFile(p, st, t)
  \/ \E m \in Mod : HD_Call(m)
  \/ HD_Begin
  \/ HD_Deps
  \/ HD_Finish
  \/ HD_Return

Spec == Init /\ [][Next]_vars

\* The same with the scheduling of the code: a call in progress keeps
\* running, whatever step it is at.
SpecLive ==
  Spec /\ WF_vars(HD_Begin) /\ WF_vars(HD_Deps) /\ WF_vars(HD_Finish) /\ WF_vars(HD_Return)

\* The registry of one file (module 1) with a library, a font and includes
\* among its references, in any order of its operations.
Main == CHOOSE m \in Mod : \A n \in Mod : m <= n
Lib == Main + 1
RegUseNames == {LibName(Lib), ModPath(Lib), FontName}
RegIncludeNames == {IncName, IncPath, CwdIncPath}
\* What the environment writes there: the include file in the main file's
\* directory in every state, the others present or absent, and the files
\* whose age is read (the includes) at two different times.
RegWrites ==
  {w \in {ModPath(Lib), IncPath, CwdIncPath, FontPath} \X FileStates \X (0..MaxTime) :
     /\ w[2] \in (IF w[1] = IncPath THEN FileStates
                   ELSE IF w[1] = ModPath(Lib) THEN {"missing", "broken", "valid"}
                   ELSE {"missing", "valid"})
     /\ w[3] \in (IF w[1] \in {IncPath, CwdIncPath} /\ w[2] = "valid" THEN {1, MaxTime} ELSE {0, 1})}

NextReg ==
  \/ \E n \in RegUseNames : AddUseNode(Main, n)
  \/ \E n \in RegIncludeNames : AddIncludeNode(Main, n)
  \/ ResolveExternals(Main)
  \/ IncludesChanged(Main)
  \/ \E w \in RegWrites : SetFile(w[1], w[2], w[3])
  \/ HD_Call(Main)
  \/ HD_Begin
  \/ HD_Deps
  \/ HD_Finish
  \/ HD_Return

SpecReg == Init /\ [][NextReg]_vars

\* The evaluation of one parsed file: its references are declared and
\* resolved, and it is instantiated with any outcome of its initialization
\* and statements.
NextInst ==
  \/ \E n \in RegUseNames : AddUseNode(Main, n)
  \/ \E n \in RegIncludeNames : AddIncludeNode(Main, n)
  \/ ResolveExternals(Main)
  \/ \E init \in InitOutcomes, stmts \in StmtSeqs : Instantiate(Main, init, stmts)

SpecInst == Init /\ [][NextInst]_vars

\* ------------------------------------------------------------------ claims
PassIdx == 1..Len(hist)
EntryIdx(i) == 1..Len(hist[i].entries)
Entries(i) == {hist[i].entries[k] : k \in EntryIdx(i)}
Ran(i) == ~hist[i].noop
Completed(i) == ~hist[i].noop /\ hist[i].ret >= 0
SetMax(S) == CHOOSE x \in S : \A y \in S : y <= x
Fails(e) == e.found /\ e.newmodule = NoModule

\* The top-level pass that has just returned: no other operation has run since.
Returned == Idle /\ out.op = "handleDependencies"
LastTop == CHOOSE i \in PassIdx : hist[i].depth = 0 /\ \A j \in PassIdx : j > i => hist[j].depth > 0

\* Passes i and j are consecutive passes of one file.
ConsecutivePasses(i, j) ==
  /\ i < j /\ Ran(i) /\ Ran(j) /\ hist[i].mod = hist[j].mod
  /\ \A k \in PassIdx : (i < k /\ k < j /\ Ran(k)) => hist[k].mod # hist[i].mod

\* A nested call is about to find the guard of its file set.
ReentrantCall == ~Idle /\ Top.pc = "deps" /\ Top.cur.newmodule # NoModule /\ guard[Top.cur.newmodule]

C1_Step ==
  ReentrantCall =>
    /\ externalDict' = externalDict /\ externalList' = externalList
    /\ cache' = cache /\ guard' = guard
    /\ Len(stack') = Len(stack)
    /\ Len(hist') = Len(hist) + 1
    /\ \A i \in PassIdx : hist'[i] = hist[i]
    /\ hist'[Len(hist')].mod = Top.cur.newmodule
    /\ hist'[Len(hist')].noop /\ hist'[Len(hist')].ret = 0

C1_State ==
  /\ \A i \in PassIdx : hist[i].noop => hist[i].ret = 0 /\ hist[i].entries = <<>>
  /\ \A k \in 1..Len(stack) : guard[stack[k].mod]

\* C1: a handleDependencies() call made while a call for the same file is in
\* progress returns 0, makes no ModuleCache call, leaves externalDict, the
\* cache and every guard as they are, and the guard stays set for the outer
\* call.
C1_ReentrantCallIsNoOp == [](C1_State) /\ [][C1_Step]_vars

C1_Witness == \E i \in PassIdx : hist[i].noop /\ hist[i].depth > 0

C2_Pairs ==
  {p \in UNION {Entries(i) \X Entries(j) : <<i, j>> \in {q \in PassIdx \X PassIdx : ConsecutivePasses(q[1], q[2])}} :
     p[1].node = p[2].node /\ Fails(p[1]) /\ Fails(p[2])}

\* C2 (as amended): for a reference whose file fails to compile on a pass and
\* on the next pass of the same file, the second pass emits no warning, and
\* the first pass emits one exactly when the key was absolute at its start and
\* the path was not cached before evaluate: one diagnostic in that case, none
\* for a relative key.
C2_OneWarningForAbsoluteKey ==
  \A p \in C2_Pairs :
    /\ ~p[2].warned
    /\ p[1].warned <=> (IsAbsolute(p[1].key) /\ ~p[1].wascached)

C2_Witness == \E p \in C2_Pairs : p[1].warned /\ ~p[2].warned /\ p[1].disk = "broken" /\ p[2].disk = "broken"

\* C2 (as claimed): every reference failing on both passes is warned about on
\* the first pass and not on the second, whatever its as-written string.
C2_Original == \A p \in C2_Pairs : p[1].warned /\ ~p[2].warned

\* An entry of an earlier pass of the file of pass j that stayed unresolved
\* under the key and for the reference of entry e.
UnresolvedBefore(j, e) ==
  \E i \in PassIdx : i < j /\ Completed(i) /\ hist[i].mod = hist[j].mod
     /\ \E e1 \in Entries(i) : e1.key = e.key /\ e1.node = e.node /\ ~e1.found

\* C3 (as amended): after a pass, an entry whose relative key found no file
\* keeps its key and reference, caused no warning, no cache call and nothing
\* of the result; an entry whose relative key found its file has lost the
\* relative key, the resolved absolute path is a key (of this reference when
\* no other entry of the pass had that path), evaluate was called, and the
\* pass returned at least the mtime evaluate reported, exactly that when no
\* other entry was evaluated.
C3_RetryOnAppearance ==
  Returned =>
    LET P == hist[LastTop]
        d == externalDict[P.mod]
        found == {e \in Entries(LastTop) : e.found}
    IN \A e \in Entries(LastTop) :
         /\ ~e.found =>
              /\ e.key \in DOMAIN d /\ d[e.key] = e.node
              /\ ~e.warned /\ e.calls = <<>>
              /\ out.ret = SetMax({0} \cup {x.mtime : x \in found})
         /\ (e.found /\ ~IsAbsolute(e.key)) =>
              /\ e.key \notin DOMAIN d
              /\ IsAbsolute(e.filename) /\ e.filename \in DOMAIN d
              /\ (\A x \in Entries(LastTop) : x.filename = e.filename => x = e) => d[e.filename] = e.node
              /\ e.calls = <<"isCached", "lookup", "evaluate">>
              /\ out.ret >= e.mtime
              /\ (found = {e}) => out.ret = e.mtime

C3_Witness ==
  /\ Returned
  /\ \E e \in Entries(LastTop) :
       /\ UnresolvedBefore(LastTop, e)
       /\ e.found /\ e.newmodule # NoModule /\ e.mtime > 0
       /\ e.filename \in DOMAIN externalDict[hist[LastTop].mod]
       /\ e.key \notin DOMAIN externalDict[hist[LastTop].mod]
       /\ out.ret = e.mtime

\* C3 (as claimed): the pass that finds the file of a reference left
\* unresolved before makes the absolute path a key of that reference and
\* returns the mtime evaluate reported for it.
C3_Original ==
  Returned =>
    \A e \in Entries(LastTop) :
      (UnresolvedBefore(LastTop, e) /\ e.found /\ e.newmodule # NoModule) =>
        /\ e.key \notin DOMAIN externalDict[hist[LastTop].mod]
        /\ e.filename \in DOMAIN externalDict[hist[LastTop].mod]
        /\ externalDict[hist[LastTop].mod][e.filename] = e.node
        /\ out.ret = e.mtime

\* C4: a pass that ran visits every key, and returns the maximum of the mtimes
\* evaluate returned for the entries with an effective absolute key, failed
\* compilations included; 0 when there is no such entry.
C4_ReturnsMaxMtime ==
  \A i \in PassIdx : Completed(i) =>
    /\ {e.key : e \in Entries(i)} = hist[i].keys
    /\ Len(hist[i].entries) = Cardinality(hist[i].keys)
    /\ hist[i].ret = SetMax({0} \cup {e.mtime : e \in {x \in Entries(i) : x.found}})

C4_Witness ==
  \E i \in PassIdx : Completed(i) /\
    \E k, l \in EntryIdx(i) :
      /\ k < l
      /\ hist[i].entries[k].mtime > hist[i].entries[l].mtime
      /\ hist[i].entries[l].mtime > 0
      /\ hist[i].entries[k].newmodule = NoModule
      /\ hist[i].ret = hist[i].entries[k].mtime

\* C5: an entry is warned about exactly when evaluate returned no module, the
\* path was not cached before the evaluate call and the key was absolute at
\* the start of the pass.
C5_WarningIffThreeConditions ==
  \A i \in PassIdx : \A e \in Entries(i) :
    e.warned <=> (e.found /\ e.newmodule = NoModule /\ ~e.wascached /\ IsAbsolute(e.key))

C5_Witness ==
  /\ \E i \in PassIdx : \E e \in Entries(i) : e.warned
  /\ \E i \in PassIdx : \E e \in Entries(i) : Fails(e) /\ ~e.wascached /\ ~IsAbsolute(e.key) /\ ~e.warned
  /\ \E i \in PassIdx : \E e \in Entries(i) : Fails(e) /\ e.wascached /\ IsAbsolute(e.key) /\ ~e.warned

\* What the passes of module m did for its n-th reference, as <<pass, entry>>.
NodeEntries(m, n) ==
  {q \in UNION {{i} \X EntryIdx(i) : i \in PassIdx} :
     hist[q[1]].mod = m /\ hist[q[1]].entries[q[2]].node = n}
EntryAt(q) == hist[q[1]].entries[q[2]]
FirstOf(Q) == CHOOSE q \in Q : \A r \in Q : q[1] <= r[1]
WarnCount(Q) == Cardinality({q \in Q : EntryAt(q).warned})
AllBroken(Q) == Q # {} /\ \A q \in Q : EntryAt(q).disk = "broken"
AllMissing(Q) == Q # {} /\ \A q \in Q : EntryAt(q).disk = "missing"
Nodes == {x \in Mod \X (1..MaxRefs) : x[2] <= Len(externalList[x[1]])}

\* C6 (as amended): over the passes of a file, a library that fails to compile
\* on every pass causes one warning in total when its key was absolute and its
\* path not cached at the first pass, and none otherwise; a library missing on
\* every pass causes none when its key is relative, and one when its key is
\* absolute and its path was not cached at the first pass.
C6_WarnOncePerAbsoluteKey ==
  \A x \in Nodes :
    LET Q == NodeEntries(x[1], x[2])
        first == EntryAt(FirstOf(Q))
    IN (AllBroken(Q) \/ AllMissing(Q)) =>
         WarnCount(Q) = IF IsAbsolute(first.key) /\ ~first.wascached THEN 1 ELSE 0

C6_Witness ==
  /\ \E x \in Nodes : LET Q == NodeEntries(x[1], x[2]) IN
        AllBroken(Q) /\ Cardinality({q[1] : q \in Q}) = MaxPasses /\ WarnCount(Q) = 1
  /\ \E x \in Nodes : LET Q == NodeEntries(x[1], x[2]) IN
        AllMissing(Q) /\ Cardinality({q[1] : q \in Q}) = MaxPasses /\ WarnCount(Q) = 0

\* C6 (as claimed): broken on every pass means one warning in total, missing
\* on every pass means none.
C6_Original ==
  \A x \in Nodes :
    LET Q == NodeEntries(x[1], x[2])
    IN /\ AllBroken(Q) /\ (\E q \in Q : Completed(q[1])) => WarnCount(Q) = 1
       /\ AllMissing(Q) => WarnCount(Q) = 0

\* The claims about the registry are checked under SpecReg.
HasFontExtension(name) ==
  ToLower(Extension(name)) \in {<<".", "o", "t", "f">>, <<".", "t", "t", "f">>}
CountEvents(ev, i) == Cardinality({k \in 1..Len(events) : events[k].ev = ev /\ events[k].node = i})
UseIdx(m) == {i \in 1..Len(externalList[m]) : externalList[m][i].kind = "use"}
IncludeIdx(m) == {i \in 1..Len(externalList[m]) : externalList[m][i].kind = "include"}
FontIdx(m) == {i \in UseIdx(m) : HasFontExtension(externalList[m][i].filename)}

\* C7: a resolveExternals() call that directly follows a resolveExternals()
\* call on the same file, nothing having changed in between, leaves
\* externalDict exactly as the first call left it.
C7_ResolveExternalsIdempotent ==
  [][(out.op = "resolveExternals" /\ out'.op = "resolveExternals" /\ out'.mod = out.mod)
       => externalDict' = externalDict]_vars

C7_Witness ==
  /\ out.op = "resolveExternals" /\ out.again
  /\ Cardinality(DOMAIN externalDict[out.mod]) = 2
  /\ hist # <<>>

C8_NeverInDict ==
  \A m \in Mod : \A k \in DOMAIN externalDict[m] :
    /\ ~HasFontExtension(k)
    /\ externalDict[m][k] \in UseIdx(m) \ FontIdx(m)

\* C8 (as amended): a use of a font file is never a key or a value of
\* externalDict, and a resolveExternals() call registers it once when its
\* as-written name is a regular file and reports it once, without
\* registering it, when it is not.
C8_FontBypass ==
  /\ C8_NeverInDict
  /\ out.op = "resolveExternals" =>
       \A i \in FontIdx(out.mod) :
         LET regular == Exists(fs, Join(Cwd, externalList[out.mod][i].filename))
         IN /\ CountEvents("register_font", i) = IF regular THEN 1 ELSE 0
            /\ CountEvents("err_font", i) = IF regular THEN 0 ELSE 1

C8_Witness ==
  /\ out.op = "resolveExternals"
  /\ hist # <<>>
  /\ externalDict[out.mod] # EmptyDict
  /\ \E i \in FontIdx(out.mod) : CountEvents("register_font", i) = 1

\* C8 (as claimed): every resolveExternals() call registers each font
\* reference exactly once.
C8_Original ==
  /\ C8_NeverInDict
  /\ out.op = "resolveExternals" =>
       \A i \in FontIdx(out.mod) : CountEvents("register_font", i) = 1

\* The mtime of the file an include resolves to, 0 when it resolves to none.
ResolvedMtime(name) ==
  LET full == FindValidPath(fs, BasePath, name)
  IN IF full = EmptyPath THEN 0 ELSE fs[full].mtime

\* C9: includesChanged() returns the maximum over the Include references of
\* the mtime of the file each resolves to, a missing file counting as 0.
C9_IncludesChangedOfResolvedFiles ==
  out.op = "includesChanged" =>
    out.ret = SetMax({0} \cup {ResolvedMtime(externalList[out.mod][i].filename) : i \in IncludeIdx(out.mod)})

\* C10: after resolveExternals(), hence resolveUseNodes(), the as-written name
\* of every use that is not a font is a key of externalDict, found or not.
C10_EveryUseIsAKey ==
  out.op = "resolveExternals" =>
    \A i \in UseIdx(out.mod) \ FontIdx(out.mod) :
      externalList[out.mod][i].filename \in DOMAIN externalDict[out.mod]

C10_Witness ==
  /\ out.op = "resolveExternals"
  /\ \E i \in UseIdx(out.mod) \ FontIdx(out.mod) :
       /\ FindValidPath(fs, BasePath, externalList[out.mod][i].filename) = EmptyPath
       /\ externalList[out.mod][i].filename \in DOMAIN externalDict[out.mod]
  /\ \E i \in IncludeIdx(out.mod) : CountEvents("err_open", i) = 1

\* The registry as it would be without its Include references: the uses in
\* their order, and an index into externalList as an index into them.
IsUseNode(n) == n.kind = "use"
UsesOnly(list) == SelectSeq(list, IsUseNode)
Rank(list, i) == Cardinality({j \in 1..i : list[j].kind = "use"})
Ranked(list, d) == [k \in DOMAIN d |-> Rank(list, d[k])]
IsFontEvent(e) == e.ev \in {"register_font", "err_font"}
IsIncludeFailure(e) == e.ev \in {"warn_include", "err_open", "err_parse"}
RankedEvents(list, evs) == [k \in 1..Len(evs) |-> [evs[k] EXCEPT !.node = Rank(list, @)]]

\* C11: whatever resolveIncludeNodes() met, a resolveExternals() call leaves
\* externalDict and registers or reports fonts exactly as resolveUseNodes()
\* does on the same registry without its Include references.
C11_UsesResolvedDespiteIncludes ==
  [][out'.op = "resolveExternals" =>
       LET m == out'.mod
           list == externalList[m]
           r == UseNodesFrom(m, UsesOnly(list), fs, 1,
                             [dict |-> Ranked(list, externalDict[m]), events |-> <<>>])
       IN /\ Ranked(list, externalDict'[m]) = r.dict
          /\ RankedEvents(list, SelectSeq(events', IsFontEvent)) = r.events]_vars

\* The last call met failure ev of an include and resolved a use declared
\* after that include.
C11_Met(ev) ==
  \E k \in 1..Len(events) :
    /\ events[k].ev = ev
    /\ \E i \in UseIdx(out.mod) :
         /\ i > events[k].node
         /\ externalList[out.mod][i].filename \in DOMAIN externalDict[out.mod]
         /\ externalDict[out.mod][externalList[out.mod][i].filename] = i

C11_Witness ==
  /\ out.op = "resolveExternals"
  /\ C11_Met("err_parse")

\* The claims about instantiate() are checked under SpecInst.
EventIdx(ev) == {k \in 1..Len(events) : events[k].ev = ev}
ThrownTypes == {events[k].file[1] : k \in EventIdx("throw")}

\* C12: when what initializeModule or a statement throws is an evaluation
\* exception, instantiate() is not left by an exception and returns a root
\* node; when the initialization threw, no statement was evaluated; and every
\* child of the root node returned was yielded by a statement evaluated
\* before the failure.  Without a failure the children are the nodes of all
\* the statements.
C12_InstantiateContainsFailures ==
  (out.op = "instantiate" /\ \A t \in ThrownTypes : IsEvaluationException(t)) =>
    /\ EventIdx("escape") = {}
    /\ events[Len(events)].ev = "return"
    /\ out.ret = Cardinality(EventIdx("child"))
    /\ \A t \in EventIdx("throw") :
         /\ EventIdx("print") # {}
         /\ events[t].node = 0 => EventIdx("instantiate") = {} /\ EventIdx("child") = {}
         /\ \A c \in EventIdx("child") :
              /\ events[c].node < events[t].node
              /\ \E k \in EventIdx("instantiate") : k < t /\ events[k].node = events[c].node
    /\ EventIdx("throw") = {} =>
         {events[c].node : c \in EventIdx("child")} = {events[k].node : k \in EventIdx("instantiate")}

C12_Witness ==
  /\ out.op = "instantiate"
  /\ externalDict[out.mod] # EmptyDict
  /\ \E t \in EventIdx("throw") :
       /\ events[t].node = MaxStmts
       /\ IsEvaluationException(events[t].file[1])
       /\ EventIdx("instantiate") # {}
  /\ events[Len(events)].ev = "return"

\* A pass of module m that ran past the guard test has not returned yet.
InProgress(m) == \E i \in PassIdx : hist[i].mod = m /\ Ran(i) /\ hist[i].ret < 0

C13_NoOpKeepsGuard ==
  (Len(hist') = Len(hist) + 1 /\ hist'[Len(hist')].noop) => guard' = guard

\* C13: the guard of a file is set exactly while a pass of that file that ran
\* past the guard test has not returned: it is clear before the first call
\* and whenever no call is in progress, and a call that finds it set leaves
\* it set.
C13_GuardIffPassInProgress ==
  [](\A m \in Mod : guard[m] <=> InProgress(m)) /\ [][C13_NoOpKeepsGuard]_vars

\* A nested call found the guard set, its file's pass goes on with the guard
\* set, and an earlier outermost call has returned and left every guard clear.
C13_Witness ==
  /\ \E i, j, k \in PassIdx :
       /\ i < j /\ j < k
       /\ Completed(i) /\ hist[i].depth = 0
       /\ Ran(j) /\ hist[j].ret < 0
       /\ hist[k].noop /\ hist[k].mod = hist[j].mod
       /\ guard[hist[j].mod]
  /\ \E m \in Mod : ~guard[m]

\* The claims about termination are checked under SpecLive.
C14_OnePassPerFile ==
  /\ \A k, l \in 1..Len(stack) : stack[k].mod = stack[l].mod => k = l
  /\ Len(stack) <= NumFiles
  /\ \A m \in Mod : Cardinality({i \in PassIdx : hist[i].mod = m /\ Ran(i) /\ hist[i].ret < 0}) <= 1

\* C14: with files that use each other or themselves, and evaluate running
\* the pass of the module it returns, every handleDependencies() call in
\* progress comes to its end; no file ever has two passes in progress, so
\* the calls are never nested deeper than there are files.
C14_PassTerminates == [](C14_OnePassPerFile) /\ (~Idle ~> Idle)

\* A top-level call has returned after a cycle was met: a pass at the
\* deepest nesting called back into a file whose pass was in progress.
C14_Witness ==
  /\ Returned /\ out.ret > 0
  /\ \E i, j \in PassIdx :
       /\ i < j
       /\ Completed(i) /\ hist[i].depth = NumFiles - 1
       /\ hist[j].noop /\ hist[j].depth = NumFiles

\* Entry e of a pass resolved its relative key to the absolute path e.filename.
Promoted(e) == e.found /\ e.wasmissing

\* The pass at the top of the stack returns: its relative keys that were
\* resolved are gone and the paths they resolved to are keys.
C15_Step ==
  (~Idle /\ Len(stack') < Len(stack)) =>
    \A e \in {x \in Entries(Top.id) : Promoted(x)} :
      /\ e.key \notin DOMAIN externalDict'[Top.mod]
      /\ e.filename \in DOMAIN externalDict'[Top.mod]

C15_State ==
  \A i \in PassIdx : Completed(i) =>
    \A e \in {x \in Entries(i) : Promoted(x)} :
      /\ e.filename \in DOMAIN externalDict[hist[i].mod]
      /\ IsAbsolute(e.filename) /\ ~IsAbsolute(e.key)
      /\ \A j \in PassIdx : (j > i /\ hist[j].mod = hist[i].mod /\ Ran(j)) =>
           /\ e.filename \in hist[j].keys
           /\ \A x \in Entries(j) :
                x.key = e.filename => (~x.wasmissing /\ x.filename = e.filename)

\* C15: when a pass of a file returns, every relative key it resolved is no
\* key of externalDict any more and the absolute path it resolved to is one;
\* from then on that absolute path stays a key, and every later pass of the
\* file visits it without resolving it again (the key is absolute at the
\* start of the pass) and under the same path, whatever became of the file
\* and whatever registry operations ran in between.
C15_PromotionIsPermanent == [](C15_State) /\ [][C15_Step]_vars

\* A later pass visited a promoted key whose file had disappeared.
C15_Witness ==
  \E i, j \in PassIdx :
    /\ i < j /\ Completed(i) /\ Completed(j) /\ hist[j].mod = hist[i].mod
    /\ \E e \in Entries(i), x \in Entries(j) :
         /\ Promoted(e) /\ x.key = e.filename /\ x.disk = "missing"
         /\ x.key \in DOMAIN externalDict[hist[j].mod]

\* The loop has just finished with an entry that stayed unresolved.
EntryLeftUnresolved ==
  /\ ~Idle /\ Len(stack') = Len(stack)
  /\ Len(hist'[Top.id].entries) = Len(hist[Top.id].entries) + 1
  /\ ~hist'[Top.id].entries[Len(hist'[Top.id].entries)].found

C16_Step ==
  /\ EntryLeftUnresolved => cache' = cache
  /\ cache' # cache =>
       /\ ~Idle /\ Len(stack') = Len(stack) /\ Top.pc = "loop"
       /\ stack'[Len(stack')].pc = "deps"
       /\ stack'[Len(stack')].cur.key \in Top.todo
       /\ stack'[Len(stack')].todo = Top.todo
  /\ (~Idle /\ Len(stack') = Len(stack) /\ Top.pc = "loop" /\ stack'[Len(stack')].pc = "deps") =>
       LET c == stack'[Len(stack')].cur
       IN /\ c.calls = <<"isCached", "lookup", "evaluate">>
          /\ c.filename = IF IsAbsolute(c.key) THEN c.key ELSE FindValidPath(fs, BasePath, c.key)
          /\ c.filename # EmptyPath
  /\ (~Idle /\ Len(stack') < Len(stack)) =>
       \A e \in {x \in Entries(Top.id) : ~x.found} :
         /\ e.key \in DOMAIN externalDict'[Top.mod]
         /\ externalDict'[Top.mod][e.key] = e.node

C16_State ==
  \A i \in PassIdx :
    /\ \A e \in Entries(i) :
         /\ ~e.found => (e.wasmissing /\ e.calls = <<>> /\ e.filename = e.key /\ ~e.wascached)
         /\ e.found => (e.calls = <<"isCached", "lookup", "evaluate">> /\ IsAbsolute(e.filename))
         /\ (e.found /\ ~e.wasmissing) => e.filename = e.key
    /\ \A k, l \in EntryIdx(i) : hist[i].entries[k].key = hist[i].entries[l].key => k = l

\* C16: in a pass, an entry whose relative key finds no file makes no
\* ModuleCache call, leaves the cache as it is and keeps its key and
\* reference when the pass returns; an entry with an effective absolute path
\* makes one evaluate call on that path, after isCached and lookup, and the
\* cache changes in no other step of the pass.
C16_CacheCallsPerEntry == [](C16_State) /\ [][C16_Step]_vars

\* A pass that has returned left one key unresolved and evaluated another.
C16_Witness ==
  \E i \in PassIdx : Completed(i) /\
    \E e, x \in Entries(i) :
      /\ ~e.found /\ e.key \in DOMAIN externalDict[hist[i].mod]
      /\ x.found /\ x.wasmissing /\ x.newmodule # NoModule

IsPrefix(s, t) == Len(s) <= Len(t) /\ \A i \in 1..Len(s) : s[i] = t[i]

C17_Step ==
  /\ \A m \in Mod : IsPrefix(externalList[m], externalList'[m])
  /\ externalList' # externalList =>
       /\ Idle /\ stack' = stack
       /\ out'.op = "none"
       /\ externalDict' = externalDict
       /\ \E m \in Mod :
            /\ Len(externalList'[m]) = Len(externalList[m]) + 1
            /\ \A n \in Mod \ {m} : externalList'[n] = externalList[n]
  /\ (out'.op \in {"resolveExternals", "handleDependencies", "includesChanged"}) =>
       externalList' = externalList

\* Every entry of externalDict is a Use reference of the list, under its
\* as-written string or under a path that string resolves to.
C17_State ==
  \A m \in Mod : \A k \in DOMAIN externalDict[m] :
    LET i == externalDict[m][k]
    IN /\ i \in UseIdx(m)
       /\ \/ k = externalList[m][i].filename
          \/ \E c \in 1..Len(Candidates(BasePath, externalList[m][i].filename)) :
               k = Candidates(BasePath, externalList[m][i].filename)[c]

\* C17: externalList is only appended to, one reference at a time by
\* addUseNode and addIncludeNode, so that every reference keeps its position,
\* kind and as-written string; resolveExternals(), handleDependencies() and
\* includesChanged() leave the list as it is, and externalDict refers to the
\* references of the list under their as-written or resolved names.
C17_ListOnlyAppended == [](C17_State) /\ [][C17_Step]_vars

\* All the operations have run on a registry of a use and an include, and a
\* key has been promoted while the reference kept its as-written string.
C17_Witness ==
  /\ out.op = "includesChanged"
  /\ UseIdx(Main) # {} /\ IncludeIdx(Main) # {}
  /\ \E i \in PassIdx : Completed(i) /\ \E e \in Entries(i) :
       /\ Promoted(e)
       /\ e.filename \in DOMAIN externalDict[Main]
       /\ externalList[Main][externalDict[Main][e.filename]].filename = e.key

\* What became of include i of the last resolveExternals() call's file.
IncludeFate(i) ==
  LET full == FindValidPath(fs, BasePath, externalList[out.mod][i].filename)
  IN IF full = EmptyPath THEN "unresolved" ELSE fs[full].st
\* The loop of resolveIncludeNodes() came as far as include i.
IncludeReached(i) ==
  \A j \in IncludeIdx(out.mod) : j < i => IncludeFate(j) \in {"unresolved", "valid"}
IncludeEvents(i) == {k \in 1..Len(events) : events[k].node = i /\ IsIncludeFailure(events[k])}

\* C18 (as amended): every Include reference that cannot be resolved and is
\* not preceded in the list by an include that was resolved but could not be
\* opened or parsed gets one warning, and the loop goes on with the next
\* include; the first include that cannot be opened or parsed is reported and
\* ends the loop, so that no include after it is warned about or reported.
C18_WarnsUntilFirstAbort ==
  out.op = "resolveExternals" =>
    \A i \in IncludeIdx(out.mod) :
      /\ Cardinality(IncludeEvents(i)) <= 1
      /\ CountEvents("warn_include", i) = IF IncludeReached(i) /\ IncludeFate(i) = "unresolved" THEN 1 ELSE 0
      /\ CountEvents("err_open", i) = IF IncludeReached(i) /\ IncludeFate(i) = "unreadable" THEN 1 ELSE 0
      /\ CountEvents("err_parse", i) = IF IncludeReached(i) /\ IncludeFate(i) = "broken" THEN 1 ELSE 0

\* An unresolved include was warned about and the include after it was
\* looked at and reported.
C18_Witness ==
  /\ out.op = "resolveExternals"
  /\ \E i, j \in IncludeIdx(out.mod) :
       /\ i < j
       /\ CountEvents("warn_include", i) = 1
       /\ CountEvents("err_open", j) = 1

\* C18 (as claimed): every Include reference that cannot be resolved gets
\* one warning, whatever became of the other includes.
C18_Original ==
  out.op = "resolveExternals" =>
    \A i \in IncludeIdx(out.mod) :
      IncludeFate(i) = "unresolved" => CountEvents("warn_include", i) = 1

\* The pass at the top of the stack returns.
PassReturns == ~Idle /\ Len(stack') < Len(stack)
Values(d) == {d[k] : k \in DOMAIN d}

\* C19 (as amended): when a pass returns, every entry whose key it did not
\* resolve keeps its key and reference, and every relative key it resolved
\* is replaced by the absolute path, under which the reference is kept when
\* that path was no key before (and no other key of the pass resolved to
\* it).  When the path was a key already, that entry stays as it was and the
\* reference of the relative key is dropped: the entries are one fewer for
\* each such key.  No other step of a pass changes externalDict.
C19_Step ==
  IF PassReturns
    THEN LET m == Top.mod
             d == externalDict[m]
             dd == externalDict'[m]
             P == {e \in Entries(Top.id) : Promoted(e)}
             keys == {e.key : e \in P}
             targets == {e.filename : e \in P}
         IN /\ \A n \in Mod \ {m} : externalDict'[n] = externalDict[n]
            /\ DOMAIN dd = (DOMAIN d \ keys) \cup targets
            /\ \A k \in DOMAIN d \ keys : dd[k] = d[k]
            /\ \A e \in P :
                 (e.filename \notin DOMAIN d /\ \A x \in P : x.filename = e.filename => x = e)
                   => dd[e.filename] = d[e.key]
            /\ Cardinality(DOMAIN dd) =
                 Cardinality(DOMAIN d) - Cardinality(keys) + Cardinality(targets \ DOMAIN d)
            /\ Values(dd) \subseteq Values(d)
    ELSE ~Idle => externalDict' = externalDict

C19_KeepsEntriesUnlessKeyTaken == [][C19_Step]_vars

\* A pass has returned that resolved every key of a registry of two
\* references and kept both of them.
C19_Witness ==
  /\ Returned
  /\ \E e, x \in Entries(LastTop) :
       /\ e # x /\ Promoted(e) /\ Promoted(x)
       /\ externalDict[hist[LastTop].mod] = (e.filename :> e.node) @@ (x.filename :> x.node)

\* C19 (as claimed): when a pass returns, every reference that was a value
\* of externalDict is still one and the number of entries is the same.
C19_Original ==
  [][PassReturns =>
       /\ Values(externalDict[Top.mod]) \subseteq Values(externalDict'[Top.mod])
       /\ Cardinality(DOMAIN externalDict'[Top.mod]) = Cardinality(DOMAIN externalDict[Top.mod])]_vars

\* C20: in every state each Use reference is the value of at most one key of
\* externalDict, whatever resolveExternals() and handleDependencies() calls
\* came before.
C20_OneKeyPerReference ==
  \A m \in Mod : \A k, l \in DOMAIN externalDict[m] :
    externalDict[m][k] = externalDict[m][l] => k = l

====
